---- MODULE Spec2Model ----
(***************************************************************************)
(* generate-usernames.py: names read from CSV files are cleaned, split     *)
(* into first/middle/last, substituted into a username template, and the   *)
(* distinct usernames are printed in sorted order.                         *)
(*                                                                         *)
(* A string is a sequence of one-character strings.                        *)
(***************************************************************************)
EXTENDS Integers, Sequences, FiniteSets, TLC

\* ------------------------------------------------------------------ bounds

\* Longest raw name, counted in pieces of RawPieces.
MaxPieces == 4
\* Longest list of raw names handed to clean_and_sort_names.
MaxRaw == 2
\* Longest template, counted in segments (a literal run or one placeholder).
MaxSegs == 2
\* Largest batch of clean names handed to convert_to_usernames.
MaxBatch == 2
\* Most file arguments on the command line.
MaxFiles == 2

\* -------------------------------------------------------------- characters

LowerSeq ==
  << "a", "b", "c", "d", "e", "f", "g", "h", "i", "j", "k", "l", "m",
     "n", "o", "p", "q", "r", "s", "t", "u", "v", "w", "x", "y", "z" >>

UpperSeq ==
  << "A", "B", "C", "D", "E", "F", "G", "H", "I", "J", "K", "L", "M",
     "N", "O", "P", "Q", "R", "S", "T", "U", "V", "W", "X", "Y", "Z" >>

Range(s) == { s[k] : k \in 1..Len(s) }

LowerLetters == Range(LowerSeq)

UpperLetters == Range(UpperSeq)

Letters == LowerLetters \cup UpperLetters

\* str.strip() with no argument strips whitespace.
Whitespace == { " ", "\t", "\n", "\r" }

IndexIn(c, s) == CHOOSE k \in 1..Len(s) : s[k] = c

\* The code point of a character (ASCII), which is what str comparison uses.
CodePoint(c) ==
  CASE c \in LowerLetters -> 96 + IndexIn(c, LowerSeq)
    [] c \in UpperLetters -> 64 + IndexIn(c, UpperSeq)
    [] c = "\t" -> 9
    [] c = "\n" -> 10
    [] c = "\r" -> 13
    [] c = " " -> 32
    [] c = "(" -> 40
    [] c = ")" -> 41
    [] c = "," -> 44
    [] c = "-" -> 45
    [] c = "." -> 46
    [] c = "@" -> 64

\* str < str: lexicographic by code point, a proper prefix is smaller.
RECURSIVE StrLess(_, _)
StrLess(a, b) ==
  IF b = << >> THEN FALSE
  ELSE IF a = << >> THEN TRUE
  ELSE IF a[1] = b[1] THEN StrLess(Tail(a), Tail(b))
  ELSE CodePoint(a[1]) < CodePoint(b[1])

\* list(set(xs)) followed by .sort(): the distinct strings, ascending.
RECURSIVE SortedList(_)
SortedList(S) ==
  IF S = {} THEN << >>
  ELSE LET least == CHOOSE x \in S : \A y \in S \ {x} : StrLess(x, y)
       IN  << least >> \o SortedList(S \ {least})

RECURSIVE Concat(_)
Concat(ss) == IF ss = << >> THEN << >> ELSE Head(ss) \o Concat(Tail(ss))

\* str.lower() on one character.
LowerChar(c) == IF c \in UpperLetters THEN LowerSeq[IndexIn(c, UpperSeq)] ELSE c

Lower(s) == [ k \in 1..Len(s) |-> LowerChar(s[k]) ]

\* str.strip(): drop leading and trailing whitespace.
Strip(s) ==
  LET keep == { k \in 1..Len(s) : s[k] \notin Whitespace }
  IN  IF keep = {} THEN << >>
      ELSE LET lo == CHOOSE k \in keep : \A j \in keep : k <= j
               hi == CHOOSE k \in keep : \A j \in keep : j <= k
           IN  SubSeq(s, lo, hi)

\* ----------------------------------------------------- regular expressions
\* A match is reported as the index just past it; 0 means no match at p.

\* The end of the longest run of characters of class C starting at p.
RunIn(s, p, C) ==
  CHOOSE q \in p..(Len(s) + 1) :
    /\ \A k \in p..(q - 1) : s[k] \in C
    /\ q = Len(s) + 1 \/ s[q] \notin C

\* The end of the longest run of characters other than c starting at p.
RunNot(s, p, c) ==
  CHOOSE q \in p..(Len(s) + 1) :
    /\ \A k \in p..(q - 1) : s[k] # c
    /\ q = Len(s) + 1 \/ s[q] = c

At(s, p, c) == p <= Len(s) /\ s[p] = c

\*  \([^)]+\)?
MatchParen(s, p) ==
  IF At(s, p, "(") /\ p + 1 <= Len(s) /\ s[p + 1] # ")"
  THEN LET q == RunNot(s, p + 1, ")")
       IN  IF q <= Len(s) THEN q + 1 ELSE q
  ELSE 0

\*  , ?[a-z]?[A-Z.]+
MatchCredential(s, p) ==
  IF At(s, p, ",")
  THEN LET a == IF At(s, p + 1, " ") THEN p + 2 ELSE p + 1
           b == IF a <= Len(s) /\ s[a] \in LowerLetters THEN a + 1 ELSE a
           e == RunIn(s, b, UpperLetters \cup {"."})
       IN  IF e > b THEN e ELSE 0
  ELSE 0

\* A variant without the ^ anchor: a title is matched wherever it stands.
MatchTitleUnanchored(s, p) ==
  LET t == IF At(s, p, "D") /\ At(s, p + 1, "r") THEN p + 2
           ELSE IF At(s, p, "M") /\ At(s, p + 1, "r")
                THEN (IF At(s, p + 2, "s") THEN p + 3 ELSE p + 2)
           ELSE IF At(s, p, "M") /\ At(s, p + 1, "s") THEN p + 2
           ELSE 0
      d == IF At(s, t, ".") THEN t + 1 ELSE t
  IN  IF t = 0 THEN 0
      ELSE IF At(s, d, " ") THEN d + 1 ELSE d

\* A variant that ignores case: "dr", "mr", "mrs" and "ms" are titles too.
MatchTitleIgnoreCase(s, p) ==
  IF p # 1 THEN 0
  ELSE LET is(k, c) == k <= Len(s) /\ LowerChar(s[k]) = c
           t == IF is(1, "d") /\ is(2, "r") THEN 3
                ELSE IF is(1, "m") /\ is(2, "r")
                     THEN (IF is(3, "s") THEN 4 ELSE 3)
                ELSE IF is(1, "m") /\ is(2, "s") THEN 3
                ELSE 0
           d == IF At(s, t, ".") THEN t + 1 ELSE t
       IN  IF t = 0 THEN 0
           ELSE IF At(s, d, " ") THEN d + 1 ELSE d

\*  ^(Dr|Mrs?|Ms)\.? ?      (^ matches at the start of the string only)
MatchTitle(s, p) ==
  IF p # 1 THEN 0
  ELSE LET t == IF At(s, 1, "D") /\ At(s, 2, "r") THEN 3
                ELSE IF At(s, 1, "M") /\ At(s, 2, "r")
                     THEN (IF At(s, 3, "s") THEN 4 ELSE 3)
                ELSE IF At(s, 1, "M") /\ At(s, 2, "s") THEN 3
                ELSE 0
           d == IF At(s, t, ".") THEN t + 1 ELSE t
       IN  IF t = 0 THEN 0
           ELSE IF At(s, d, " ") THEN d + 1 ELSE d

\* titles_suffixes: the three alternatives tried in order at one position.
titles_suffixes(s, p) ==
  IF MatchParen(s, p) # 0 THEN MatchParen(s, p)
  ELSE IF MatchCredential(s, p) # 0 THEN MatchCredential(s, p)
  ELSE MatchTitle(s, p)

LinkedInMember ==
  << "L", "i", "n", "k", "e", "d", "I", "n", " ", "M", "e", "m", "b", "e", "r" >>

\*  [^A-Za-z ]|LinkedIn Member
non_names(s, p) ==
  IF s[p] \notin Letters \cup {" "} THEN p + 1
  ELSE IF /\ p + Len(LinkedInMember) - 1 <= Len(s)
          /\ SubSeq(s, p, p + Len(LinkedInMember) - 1) = LinkedInMember
       THEN p + Len(LinkedInMember)
  ELSE 0

\*  ' +'
multiple_spaces(s, p) ==
  IF s[p] = " " THEN RunIn(s, p, {" "}) ELSE 0

\* The end of a match of the named pattern at p, 0 if it does not match.
MatchAt(pattern, s, p) ==
  CASE pattern = "titles_suffixes" -> titles_suffixes(s, p)
    [] pattern = "non_names" -> non_names(s, p)
    [] pattern = "multiple_spaces" -> multiple_spaces(s, p)

\* re.sub(pattern, repl, s): one left-to-right scan; a match is replaced and
\* the scan resumes after it, an unmatched character is copied.
RECURSIVE ReSub(_, _, _, _)
ReSub(pattern, repl, s, p) ==
  IF p > Len(s) THEN << >>
  ELSE LET e == MatchAt(pattern, s, p)
       IN  IF e # 0 THEN repl \o ReSub(pattern, repl, s, e)
           ELSE << s[p] >> \o ReSub(pattern, repl, s, p + 1)

SubTitlesSuffixes(name) == ReSub("titles_suffixes", << >>, name, 1)

SubNonNames(name) == ReSub("non_names", << >>, name, 1)

\* A variant that collapses the spaces and does not strip the ends.
SubSpacesOnly(name) == ReSub("multiple_spaces", << " " >>, name, 1)

SubSpacesStrip(name) == Strip(ReSub("multiple_spaces", << " " >>, name, 1))

\* The per-name part of clean_and_sort_names, in the order of its passes.
CleanName(name) == Lower(SubSpacesStrip(SubNonNames(SubTitlesSuffixes(name))))

\* clean_and_sort_names(names)
clean_and_sort_names(raw) ==
  LET cleaned == [ k \in 1..Len(raw) |-> CleanName(raw[k]) ]
  IN  SortedList(Range(cleaned) \ { << >> })

\* ---------------------------------------------------------------- templates
\* A template is the sequence of segments string.Formatter().parse() yields
\* for it: a literal run (text) or one replacement field (name).

Literal(text) == [ kind |-> "literal", name |-> "", text |-> text ]

Field(name) == [ kind |-> "field", name |-> name, text |-> << >> ]

\* The keyword arguments convert_to_usernames passes to str.format.
KnownFields == { "first", "f", "middle", "m", "last", "l" }

\* A replacement field that is empty or a number is positional in str.format.
PositionalFields == { "", "0", "1" }

\* _fields_in_template(fstring)
_fields_in_template(fstring) ==
  { fstring[k].name : k \in { j \in 1..Len(fstring) :
                                /\ fstring[j].kind = "field"
                                /\ fstring[j].name # "" } }

requires_first(fields) == ("first" \in fields) \/ ("f" \in fields)

\* A variant that looks for the long form only.
requires_middle_long_form(fields) == "middle" \in fields

\* A variant that requires a middle name whatever the template says.
requires_middle_always(fields) == TRUE

requires_middle(fields) == ("middle" \in fields) \/ ("m" \in fields)

requires_last(fields) == ("last" \in fields) \/ ("l" \in fields)

\* str.split(' '): cut at every single space; never an empty list.
RECURSIVE Split(_)
Split(s) ==
  IF \A k \in 1..Len(s) : s[k] # " " THEN << s >>
  ELSE LET cut == CHOOSE k \in 1..Len(s) :
                    s[k] = " " /\ \A j \in 1..(k - 1) : s[j] # " "
       IN  << SubSeq(s, 1, cut - 1) >> \o Split(SubSeq(s, cut + 1, Len(s)))

\* The three checks of required parts against the n available tokens.
MissingRequired(fields, n) ==
  \/ requires_first(fields) /\ n < 1
  \/ requires_last(fields) /\ n < 2
  \/ requires_middle(fields) /\ n < 3

FirstOf(parts) == IF Len(parts) >= 1 THEN parts[1] ELSE << >>

\* A variant that takes the third token for the last name.
LastOfThird(parts) == IF Len(parts) >= 3 THEN parts[3] ELSE << >>

LastOf(parts) == IF Len(parts) >= 2 THEN parts[Len(parts)] ELSE << >>

MiddleOf(parts) == IF Len(parts) >= 3 THEN parts[2] ELSE << >>

\* x[0] if x else ''
Initial(x) == IF x # << >> THEN << x[1] >> ELSE << >>

template_values(parts) ==
  [ field \in KnownFields |->
      CASE field = "first" -> FirstOf(parts)
        [] field = "f" -> Initial(FirstOf(parts))
        [] field = "middle" -> MiddleOf(parts)
        [] field = "m" -> Initial(MiddleOf(parts))
        [] field = "last" -> LastOf(parts)
        [] field = "l" -> Initial(LastOf(parts)) ]

\* A variant that substitutes nothing for a name it has no value for.
RECURSIVE FormatLenient(_, _)
FormatLenient(fstring, values) ==
  IF fstring = << >> THEN [ raised |-> "none", text |-> << >> ]
  ELSE LET seg == Head(fstring)
           rest == FormatLenient(Tail(fstring), values)
       IN  IF seg.kind = "literal"
           THEN [ rest EXCEPT !.text = seg.text \o @ ]
           ELSE IF seg.name \notin DOMAIN values THEN rest
           ELSE [ rest EXCEPT !.text = values[seg.name] \o @ ]

\* fstring.format(**values): the segments are substituted left to right and
\* the first field without a value raises: IndexError for a positional
\* field (no positional arguments are passed), KeyError for any other name.
RECURSIVE Format(_, _)
Format(fstring, values) ==
  IF fstring = << >> THEN [ raised |-> "none", text |-> << >> ]
  ELSE LET seg == Head(fstring)
           rest == Format(Tail(fstring), values)
       IN  IF seg.kind = "literal"
           THEN (IF rest.raised # "none" THEN rest
                 ELSE [ rest EXCEPT !.text = seg.text \o @ ])
           ELSE IF seg.name \in PositionalFields
           THEN [ raised |-> "IndexError", text |-> << >> ]
           ELSE IF seg.name \notin DOMAIN values
           THEN [ raised |-> "KeyError", text |-> << >> ]
           ELSE IF rest.raised # "none" THEN rest
           ELSE [ rest EXCEPT !.text = values[seg.name] \o @ ]

\* ------------------------------------------------------------------- files

\* A variant that keeps the first field as it is read.
extract_names_unstripped(filename, files) ==
  LET rows == IF files[filename].exists THEN files[filename].rows ELSE << >>
      kept == SelectSeq(rows, LAMBDA row : row # << >>)
  IN  [ k \in 1..Len(kept) |-> kept[k][1] ]

\* extract_names(filename): the stripped first field of every non-empty row
\* of the file, nothing when the path does not exist.
extract_names(filename, files) ==
  LET rows == IF files[filename].exists THEN files[filename].rows ELSE << >>
      kept == SelectSeq(rows, LAMBDA row : row # << >>)
  IN  [ k \in 1..Len(kept) |-> Strip(kept[k][1]) ]

\* ------------------------------------------------------------------ inputs

Str_at_acme_com == << "@", "a", "c", "m", "e", ".", "c", "o", "m" >>

Str_dot == << "." >>

\* "{f}{m}{last}@acme.com"
Tpl_f_m_last ==
  << Field("f"), Field("m"), Field("last"), Literal(Str_at_acme_com) >>

\* "{f}{last}@acme.com"
Tpl_f_last == << Field("f"), Field("last"), Literal(Str_at_acme_com) >>

\* "{first}.{nickname}@acme.com"
Tpl_first_nickname ==
  << Field("first"), Literal(Str_dot), Field("nickname"),
     Literal(Str_at_acme_com) >>

\* "{0}{first}"
Tpl_positional == << Field("0"), Field("first") >>

\* "{nickname}"
Tpl_nickname == << Field("nickname") >>

\* "@acme.com"
Tpl_literal == << Literal(Str_at_acme_com) >>

ExampleTemplates ==
  { Tpl_f_m_last, Tpl_f_last, Tpl_first_nickname, Tpl_positional,
    Tpl_nickname, Tpl_literal }

Segments ==
  { Field(name) : name \in KnownFields \cup { "nickname", "0" } }
    \cup { Literal(Str_dot) }

RECURSIVE SeqsUpTo(_, _)
SeqsUpTo(S, n) ==
  IF n = 0 THEN { << >> }
  ELSE LET shorter == SeqsUpTo(S, n - 1)
       IN  shorter \cup { Append(x, e) : x \in shorter, e \in S }

Templates == SeqsUpTo(Segments, MaxSegs) \cup ExampleTemplates

Name_cher == << "c", "h", "e", "r" >>

Name_jane_doe == << "j", "a", "n", "e", " ", "d", "o", "e" >>

Name_john_quincy_public == << "j", "o", "h", "n", " ", "q", "u", "i", "n", "c", "y", " ", "p", "u", "b", "l", "i", "c" >>

Name_al_bo_cy_di == << "a", "l", " ", "b", "o", " ", "c", "y", " ", "d", "i" >>

Name_al_bo_ed_di == << "a", "l", " ", "b", "o", " ", "e", "d", " ", "d", "i" >>

Name_al_bo_cy_ed_di == << "a", "l", " ", "b", "o", " ", "c", "y", " ", "e", "d", " ", "d", "i" >>

CleanPool ==
  { Name_cher, Name_jane_doe, Name_john_quincy_public, Name_al_bo_cy_di,
    Name_al_bo_ed_di, Name_al_bo_cy_ed_di }

\* The lists clean_and_sort_names can return: distinct, ascending.
CleanBatches ==
  { SortedList(S) : S \in { T \in SUBSET CleanPool : Cardinality(T) <= MaxBatch } }

RawPieces ==
  { << "(" >>, << ")" >>, << "," >>, << " " >>, << "." >>, << "-" >>,
    << "D", "r" >>, << "s" >>, << "B" >>, LinkedInMember }

RawNames == { Concat(ps) : ps \in SeqsUpTo(RawPieces, MaxPieces) }

Raw_dr_jane_q_public_md == << "D", "r", ".", " ", "J", "a", "n", "e", " ", "Q", ".", " ", "P", "u", "b", "l", "i", "c", ",", " ", "M", "D" >>

Raw_retired_dr_jane == << "(", "R", "e", "t", "i", "r", "e", "d", ")", " ", "D", "r", ".", " ", "J", "a", "n", "e" >>

Raw_jane_doe_spaced == << " ", " ", "J", "a", "n", "e", " ", " ", " ", "D", "o", "e", " " >>

Raw_jane_doe_pmp == << "J", "A", "N", "E", " ", "D", "O", "E", ",", " ", "P", "M", "P", "." >>

Raw_cher == << "C", "h", "e", "r" >>

Raw_linkedin == LinkedInMember

Raw_mrs_ann_lee == << "M", "r", "s", ".", " ", "A", "n", "n", " ", "L", "e", "e", " ", "(", "s", "h", "e", ")" >>

Raw_ms_ann_lee == << "M", "s", " ", "A", "n", "n", " ", " ", "L", "e", "e" >>

RawPool ==
  { Raw_dr_jane_q_public_md, Raw_retired_dr_jane, Raw_jane_doe_spaced,
    Raw_jane_doe_pmp, Raw_cher, Raw_linkedin, Raw_mrs_ann_lee,
    Raw_ms_ann_lee, Name_john_quincy_public, Name_al_bo_cy_ed_di }

RawLists == SeqsUpTo(RawPool, MaxRaw) \cup { << raw >> : raw \in RawNames }

\* The files on disk: a CSV with a second column, padding and a blank row,
\* a plain list of names, an empty file; "missing.csv" does not exist.
File_a ==
  << << Raw_jane_doe_spaced, Str_dot >>, << >>,
     << Raw_dr_jane_q_public_md >>, << Name_john_quincy_public >> >>

File_b ==
  << << Raw_cher >>, << Raw_jane_doe_pmp >>, << Name_al_bo_cy_ed_di >>,
     << Raw_retired_dr_jane >> >>

Paths == { "a.csv", "b.txt", "empty.txt", "missing.csv", "-h" }

Disk ==
  [ path \in Paths |->
      CASE path = "a.csv" -> [ exists |-> TRUE, rows |-> File_a ]
        [] path = "b.txt" -> [ exists |-> TRUE, rows |-> File_b ]
        [] path = "empty.txt" -> [ exists |-> TRUE, rows |-> << >> ]
        [] OTHER -> [ exists |-> FALSE, rows |-> << >> ] ]

RunTemplates ==
  ExampleTemplates \cup SeqsUpTo(Segments, 1)
    \cup { << Field("l"), Field("first") >>,
           << Field("nickname"), Field("0") >>,
           << Field("middle"), Field("nickname") >> }

\* The head of the usage text (the rest of it is not modelled).
UsageText == << "\n", "g", "e", "n", "e", "r", "a", "t", "e", "-", "u", "s", "e", "r", "n", "a", "m", "e", "s", ".", "p", "y", "\n" >>

\* ------------------------------------------------------------------- state

VARIABLES
  pc,            \* where the script is
  files,         \* the file system: path -> [exists, rows]
  fstring,       \* sys.argv[1]
  name_files,    \* sys.argv[2:]
  filenum,       \* the file the extraction loop is at
  names,         \* the raw names, then the clean names
  namenum,       \* the name the loop of convert_to_usernames is at
  usernames,     \* the usernames rendered so far, then the sorted distinct ones
  skipped,       \* the skip counter of convert_to_usernames
  skipped_count, \* the counter as returned to the script
  stdout,        \* the text written to standard output
  stderr,        \* the reports written to standard error
  exit_status    \* "none" while running, then "zero" or "nonzero"

vars ==
  << pc, files, fstring, name_files, filenum, names, namenum, usernames,
     skipped, skipped_count, stdout, stderr, exit_status >>

\* "\n".join(lines)
RECURSIVE JoinLines(_)
JoinLines(lines) ==
  IF lines = << >> THEN << >>
  ELSE IF Len(lines) = 1 THEN lines[1]
  ELSE lines[1] \o << "\n" >> \o JoinLines(Tail(lines))

\* print(text): the text and a newline.
Print_(text) == text \o << "\n" >>

Fresh ==
  /\ filenum = 1
  /\ names = << >>
  /\ namenum = 1
  /\ usernames = << >>
  /\ skipped = 0
  /\ skipped_count = 0
  /\ stdout = << >>
  /\ stderr = << >>
  /\ exit_status = "none"

\* The script is started with a template and file arguments.
Init ==
  /\ pc = "start"
  /\ files = Disk
  /\ fstring \in RunTemplates
  /\ name_files \in SeqsUpTo(Paths, MaxFiles)
  /\ Fresh

\* len(sys.argv) < 3 or '-h' in sys.argv or '--help' in sys.argv
NeedsUsage ==
  Len(name_files) < 1 \/ Range(name_files) \cap { "-h", "--help" } # {}

\* print(usage); exit()
Usage ==
  /\ pc = "start"
  /\ NeedsUsage
  /\ stdout' = stdout \o Print_(UsageText)
  /\ pc' = "exited"
  /\ exit_status' = "zero"
  /\ UNCHANGED << files, fstring, name_files, filenum, names, namenum,
                  usernames, skipped, skipped_count, stderr >>

ReadArguments ==
  /\ pc = "start"
  /\ ~ NeedsUsage
  /\ pc' = "extract"
  /\ filenum' = 1
  /\ names' = << >>
  /\ UNCHANGED << files, fstring, name_files, namenum, usernames, skipped,
                  skipped_count, stdout, stderr, exit_status >>

\* for filename in name_files: names += extract_names(filename)
ExtractFile ==
  /\ pc = "extract"
  /\ filenum <= Len(name_files)
  /\ names' = names \o extract_names(name_files[filenum], files)
  /\ filenum' = filenum + 1
  /\ UNCHANGED << pc, files, fstring, name_files, namenum, usernames, skipped,
                  skipped_count, stdout, stderr, exit_status >>

\* names = clean_and_sort_names(names), and the entry of convert_to_usernames.
CleanAndSort ==
  /\ pc = "extract"
  /\ filenum > Len(name_files)
  /\ names' = clean_and_sort_names(names)
  /\ pc' = "convert"
  /\ namenum' = 1
  /\ usernames' = << >>
  /\ skipped' = 0
  /\ UNCHANGED << files, fstring, name_files, filenum, skipped_count, stdout,
                  stderr, exit_status >>

\* A variant that sets the counter instead of incrementing it.
SkipSet(count) == 1

\* skipped += 1
Skip(count) == count + 1

\* One pass of the loop of convert_to_usernames over names[namenum].
ConvertName ==
  /\ pc = "convert"
  /\ namenum <= Len(names)
  /\ LET fields == _fields_in_template(fstring)
         parts == Split(names[namenum])
         made == Format(fstring, template_values(parts))
     IN  IF MissingRequired(fields, Len(parts))
         THEN /\ skipped' = Skip(skipped)
              /\ namenum' = namenum + 1
              /\ UNCHANGED << pc, usernames, stderr, exit_status >>
         ELSE IF made.raised = "none"
         THEN /\ usernames' = Append(usernames, made.text)
              /\ namenum' = namenum + 1
              /\ UNCHANGED << pc, skipped, stderr, exit_status >>
         ELSE IF made.raised = "KeyError"
         THEN /\ skipped' = Skip(skipped)
              /\ namenum' = namenum + 1
              /\ UNCHANGED << pc, usernames, stderr, exit_status >>
         ELSE /\ pc' = "crashed"
              /\ stderr' = Append(stderr, [ kind |-> "traceback", count |-> 0 ])
              /\ exit_status' = "nonzero"
              /\ UNCHANGED << namenum, usernames, skipped >>
  /\ UNCHANGED << files, fstring, name_files, filenum, names, skipped_count,
                  stdout >>

\* return usernames, skipped
ConvertReturn ==
  /\ pc = "convert"
  /\ namenum > Len(names)
  /\ skipped_count' = skipped
  /\ pc' = "returned"
  /\ UNCHANGED << files, fstring, name_files, filenum, names, namenum,
                  usernames, skipped, stdout, stderr, exit_status >>

\* A variant that prints the usernames as they were collected.
PrintUsernamesAsCollected ==
  /\ pc = "returned"
  /\ stdout' = stdout \o Print_(JoinLines(usernames))
  /\ pc' = "printed"
  /\ UNCHANGED << files, fstring, name_files, filenum, names, namenum,
                  usernames, skipped, skipped_count, stderr, exit_status >>

\* usernames = list(set(usernames)); usernames.sort(); print("\n".join(usernames))
PrintUsernames ==
  /\ pc = "returned"
  /\ usernames' = SortedList(Range(usernames))
  /\ stdout' = stdout \o Print_(JoinLines(usernames'))
  /\ pc' = "printed"
  /\ UNCHANGED << files, fstring, name_files, filenum, names, namenum, skipped,
                  skipped_count, stderr, exit_status >>

\* print(f"\n[warning] Skipped {skipped_count} name(s) ...", file=sys.stderr)
PrintWarning ==
  /\ pc = "printed"
  /\ stderr' = Append(stderr, [ kind |-> "warning", count |-> skipped_count ])
  /\ pc' = "done"
  /\ exit_status' = "zero"
  /\ UNCHANGED << files, fstring, name_files, filenum, names, namenum,
                  usernames, skipped, skipped_count, stdout >>

Next ==
  \/ Usage
  \/ ReadArguments
  \/ ExtractFile
  \/ CleanAndSort
  \/ ConvertName
  \/ ConvertReturn
  \/ PrintUsernames
  \/ PrintWarning

Spec == Init /\ [][Next]_vars

\* One file holding the given names, one per row, named on the command line.
OneFile(rows) ==
  [ path \in Paths |->
      IF path = "a.csv" THEN [ exists |-> TRUE, rows |-> rows ]
      ELSE [ exists |-> FALSE, rows |-> << >> ] ]

\* The cleaning of every raw name list: the script after ReadArguments.
InitClean ==
  /\ pc = "extract"
  /\ \E raw \in RawLists : files = OneFile([ k \in 1..Len(raw) |-> << raw[k] >> ])
  /\ fstring = Tpl_f_last
  /\ name_files = << "a.csv" >>
  /\ Fresh

NextClean == ExtractFile \/ CleanAndSort

SpecClean == InitClean /\ [][NextClean]_vars

\* The rendering of every batch of clean names under every template: the
\* script at the entry of convert_to_usernames.
InitRender ==
  /\ pc = "convert"
  /\ fstring \in Templates
  /\ names \in CleanBatches
  /\ files = OneFile([ k \in 1..Len(names) |-> << names[k] >> ])
  /\ name_files = << "a.csv" >>
  /\ filenum = 2
  /\ namenum = 1
  /\ usernames = << >>
  /\ skipped = 0
  /\ skipped_count = 0
  /\ stdout = << >>
  /\ stderr = << >>
  /\ exit_status = "none"

NextRender == ConvertName \/ ConvertReturn

SpecRender == InitRender /\ [][NextRender]_vars

\* ------------------------------------------------------------- properties
\* The vocabulary of the properties, stated from the text of a template and
\* of a name rather than from the script's intermediate values.

\* The template references the placeholder {field}.
Refers(template, field) ==
  \E k \in 1..Len(template) :
    template[k].kind = "field" /\ template[k].name = field

Placeholders(template) ==
  { template[k].name : k \in { j \in 1..Len(template) : template[j].kind = "field" } }

TokenCount(name) == 1 + Cardinality({ k \in 1..Len(name) : name[k] = " " })

\* The position of the i-th space of the name; 0 and Len + 1 stand for the
\* two ends.
SpaceAt(name, i) ==
  IF i = 0 THEN 0
  ELSE IF i = TokenCount(name) THEN Len(name) + 1
  ELSE CHOOSE p \in 1..Len(name) :
         /\ name[p] = " "
         /\ Cardinality({ k \in 1..p : name[k] = " " }) = i

\* The i-th space-separated token, counted from 1.
Token(name, i) == SubSeq(name, SpaceAt(name, i - 1) + 1, SpaceAt(name, i) - 1)

FirstChar(s) == IF s = << >> THEN << >> ELSE << s[1] >>

Component(name, field) ==
  LET n == TokenCount(name)
      first == Token(name, 1)
      last == IF n >= 2 THEN Token(name, n) ELSE << >>
      middle == IF n >= 3 THEN Token(name, 2) ELSE << >>
  IN  CASE field = "first" -> first
        [] field = "last" -> last
        [] field = "middle" -> middle
        [] field = "f" -> FirstChar(first)
        [] field = "l" -> FirstChar(last)
        [] field = "m" -> FirstChar(middle)
        [] OTHER -> << >>

\* The template with every placeholder replaced by its component.
Rendering(template, name) ==
  Concat([ k \in 1..Len(template) |->
             IF template[k].kind = "literal" THEN template[k].text
             ELSE Component(name, template[k].name) ])

\* A required component is missing from the name.
FailsRequired(template, name) ==
  LET n == TokenCount(name)
  IN  \/ (Refers(template, "first") \/ Refers(template, "f")) /\ n < 1
      \/ (Refers(template, "last") \/ Refers(template, "l")) /\ n < 2
      \/ (Refers(template, "middle") \/ Refers(template, "m")) /\ n < 3

\* The loop of convert_to_usernames is about to process a name.
AtName == pc = "convert" /\ namenum <= Len(names)

Str_jdoe_at_acme_com == << "j", "d", "o", "e", "@", "a", "c", "m", "e", ".", "c", "o", "m" >>

Str_jqpublic_at_acme_com == << "j", "q", "p", "u", "b", "l", "i", "c", "@", "a", "c", "m", "e", ".", "c", "o", "m" >>

\* C2: under a template over the six known fields, a name is skipped exactly
\* when a required component is missing (first needs 1 token, last 2, middle
\* 3); a skip adds exactly 1 to the counter and no username, any other name
\* adds exactly one username and leaves the counter alone. "jane doe" is
\* skipped under "{f}{m}{last}@acme.com" and gives "jdoe@acme.com" under
\* "{f}{last}@acme.com".
C2_SkipIffRequiredMissing ==
  [][ (AtName /\ Placeholders(fstring) \subseteq KnownFields) =>
        /\ FailsRequired(fstring, names[namenum]) =>
             skipped' = skipped + 1 /\ usernames' = usernames
        /\ ~ FailsRequired(fstring, names[namenum]) =>
             skipped' = skipped /\ Len(usernames') = Len(usernames) + 1
        /\ (fstring = Tpl_f_m_last /\ names[namenum] = Name_jane_doe) =>
             skipped' = skipped + 1 /\ usernames' = usernames
        /\ (fstring = Tpl_f_last /\ names[namenum] = Name_jane_doe) =>
             /\ skipped' = skipped
             /\ usernames' = Append(usernames, Str_jdoe_at_acme_com) ]_vars

\* "jane doe" has been skipped under "{f}{m}{last}@acme.com" next to a name
\* that was rendered.
C2_Witness ==
  /\ pc = "returned"
  /\ fstring = Tpl_f_m_last
  /\ names = << Name_jane_doe, Name_john_quincy_public >>
  /\ skipped_count = 1
  /\ Len(usernames) = 1

\* Two names have the same first, second and last token.
SameOuterTokens(a, b) ==
  /\ Token(a, 1) = Token(b, 1)
  /\ TokenCount(a) >= 2 /\ TokenCount(b) >= 2
  /\ Token(a, 2) = Token(b, 2)
  /\ Token(a, TokenCount(a)) = Token(b, TokenCount(b))

\* C3: a name that is not skipped renders to the template with first = t[0],
\* last = t[n-1] (n >= 2), middle = t[1] (n >= 3) and their first characters
\* for f, m, l; the tokens in between never matter, so two names with the
\* same first, second and last token render identically.
\* "{f}{m}{last}@acme.com" on "john quincy public" gives "jqpublic@acme.com".
C3_RenderedFromOuterTokens ==
  /\ [][ (AtName /\ Len(usernames') = Len(usernames) + 1) =>
           /\ usernames' =
                Append(usernames, Rendering(fstring, names[namenum]))
           /\ (fstring = Tpl_f_m_last
                 /\ names[namenum] = Name_john_quincy_public) =>
                usernames'[Len(usernames')] = Str_jqpublic_at_acme_com ]_vars
  /\ [] ( (pc = "returned" /\ skipped_count = 0) =>
            \A i, j \in 1..Len(names) :
              SameOuterTokens(names[i], names[j]) =>
                usernames[i] = usernames[j] )

\* Two names of four and five tokens that differ only between the second and
\* the last token have been rendered under a template that uses all three
\* components.
C3_Witness ==
  /\ pc = "returned"
  /\ fstring = Tpl_f_m_last
  /\ names = << Name_al_bo_cy_di, Name_al_bo_cy_ed_di >>
  /\ Len(usernames) = 2
  /\ usernames[1] = usernames[2]

C10_Conservation ==
  /\ [] ( /\ pc \in { "convert", "crashed" } =>
               Len(usernames) + skipped = namenum - 1
          /\ pc = "returned" =>
               /\ Len(usernames) + skipped_count = Len(names)
               /\ namenum = Len(names) + 1 )
  /\ [][ (AtName /\ pc' = "convert") =>
           /\ namenum' = namenum + 1
           /\ \/ skipped' = skipped + 1 /\ usernames' = usernames
              \/ /\ skipped' = skipped
                 /\ Len(usernames') = Len(usernames) + 1
                 /\ SubSeq(usernames', 1, Len(usernames)) = usernames ]_vars

\* A batch in which one name was skipped and the other rendered has returned.
C10_Witness ==
  /\ pc = "returned"
  /\ Len(names) = 2
  /\ skipped_count = 1
  /\ Len(usernames) = 1

\* The run has got past its arguments (no usage text, no exit()).
PastArguments == pc \notin { "start", "exited" }

\* The template references a placeholder outside the six known fields.
HasUnknownField(template) == Placeholders(template) \ KnownFields # {}

Rendered(template, clean) ==
  { Rendering(template, clean[k]) :
      k \in { j \in 1..Len(clean) :
                /\ ~ FailsRequired(template, clean[j])
                /\ ~ HasUnknownField(template) } }

Ascending(list) ==
  \A i, j \in 1..Len(list) : i < j => StrLess(list[i], list[j])

\* Every string of the list followed by a newline; the text is newline
\* terminated also when the list is empty.
OnePerLine(list) ==
  IF list = << >> THEN << "\n" >>
  ELSE Concat([ k \in 1..Len(list) |-> list[k] \o << "\n" >> ])

\* The skip count is on the diagnostic stream only, and only after the
\* primary output.
WarningAfterOutput ==
  /\ stderr # << >> /\ pc # "crashed" => pc = "done" /\ stdout # << >>
  /\ pc \in { "printed", "done" } =>
       stdout = OnePerLine(usernames)

RECURSIVE Trimmed(_)
Trimmed(s) ==
  IF s = << >> THEN s
  ELSE IF Head(s) \in Whitespace THEN Trimmed(Tail(s))
  ELSE IF s[Len(s)] \in Whitespace THEN Trimmed(SubSeq(s, 1, Len(s) - 1))
  ELSE s

\* The trimmed first field of every non-empty row.
RECURSIVE FirstFields(_)
FirstFields(rows) ==
  IF rows = << >> THEN << >>
  ELSE IF Head(rows) = << >> THEN FirstFields(Tail(rows))
  ELSE << Trimmed(Head(rows)[1]) >> \o FirstFields(Tail(rows))

\* What the paths contribute, in argument order; nothing for a missing path.
RECURSIVE Contribution(_)
Contribution(paths) ==
  IF paths = << >> THEN << >>
  ELSE (IF files[Head(paths)].exists THEN FirstFields(files[Head(paths)].rows)
        ELSE << >>) \o Contribution(Tail(paths))

\* C9: a path that does not exist contributes no name and raises no error,
\* an existing file contributes the trimmed first field of each of its
\* non-empty rows, and the raw names are the concatenation of the files'
\* names in argument order; the run goes on to normalisation whatever paths
\* are missing.
C9_ExtractedInArgumentOrder ==
  /\ pc = "extract" =>
       /\ names = Contribution(SubSeq(name_files, 1, filenum - 1))
       /\ exit_status = "none"
       /\ stderr = << >>
  /\ pc \in { "convert", "returned", "printed", "done", "crashed" } =>
       names = clean_and_sort_names(Contribution(name_files))

\* A missing path followed by an existing file has been read.
C9_Witness ==
  /\ pc = "extract"
  /\ name_files = << "missing.csv", "a.csv" >>
  /\ filenum = 3
  /\ Len(names) = 3
  /\ names[1] = Trimmed(Raw_jane_doe_spaced)
  /\ names[1] # Raw_jane_doe_spaced

\* A clean name: [a-z]+( [a-z]+)*
IsCleanName(s) ==
  /\ s # << >>
  /\ \A k \in 1..Len(s) : s[k] \in LowerLetters \cup { " " }
  /\ s[1] # " " /\ s[Len(s)] # " "
  /\ \A k \in 1..(Len(s) - 1) : ~ (s[k] = " " /\ s[k + 1] = " ")

\* clean_and_sort_names has returned.
Cleaned == pc = "convert"

\* The raw names clean_and_sort_names was given: the rows of the one file.
RawGiven == [ k \in 1..Len(files["a.csv"].rows) |-> files["a.csv"].rows[k][1] ]

\* C4: every element of the output of clean_and_sort_names is non-empty and
\* matches [a-z]+( [a-z]+)*, no element occurs twice, and the list is in
\* ascending code point order.
C4_CleanSortedUnique ==
  Cleaned =>
    /\ \A k \in 1..Len(names) : IsCleanName(names[k])
    /\ \A i, j \in 1..Len(names) : i # j => names[i] # names[j]
    /\ Ascending(names)

\* Two raw names that clean to the same name, given after a raw name that
\* sorts behind them.
C4_Witness ==
  /\ Cleaned
  /\ RawGiven = << Name_john_quincy_public, Raw_jane_doe_pmp >>
  /\ names = << Name_jane_doe, Name_john_quincy_public >>

\* Every match of one alternative of titles_suffixes removed, as a pass of
\* its own over the whole string.
RECURSIVE RemoveAll(_, _, _)
RemoveAll(rule, s, p) ==
  IF p > Len(s) THEN << >>
  ELSE LET e == IF rule = 1 THEN MatchParen(s, p) ELSE MatchCredential(s, p)
       IN  IF e # 0 THEN RemoveAll(rule, s, e)
           ELSE << s[p] >> \o RemoveAll(rule, s, p + 1)

\* A single leading title removed.
RemoveLeadingTitle(s) ==
  IF MatchTitle(s, 1) # 0 THEN SubSeq(s, MatchTitle(s, 1), Len(s)) ELSE s

\* Rules 1 to 6 as separate passes, each over the result of the one before.
PassByPass(raw) ==
  Lower(SubSpacesStrip(SubNonNames(
    RemoveLeadingTitle(RemoveAll(2, RemoveAll(1, raw, 1), 1)))))

\* The clean names the separate passes give for a list of raw names.
PassByPassList(raw) ==
  SortedList({ PassByPass(raw[k]) : k \in 1..Len(raw) } \ { << >> })

\* Rule 1 and rule 2 find nothing to remove in the raw name.
NoParenNoCredential(raw) ==
  RemoveAll(1, raw, 1) = raw /\ RemoveAll(2, raw, 1) = raw

C6_Idempotent ==
  Cleaned =>
    /\ clean_and_sort_names(names) = names
    /\ \A k \in 1..Len(names) :
         /\ SubTitlesSuffixes(names[k]) = names[k]
         /\ SubNonNames(names[k]) = names[k]
         /\ SubSpacesStrip(names[k]) = names[k]
         /\ Lower(names[k]) = names[k]

\* Raw names that every rule had something to remove from have been cleaned.
C6_Witness ==
  /\ Cleaned
  /\ RawGiven = << Raw_dr_jane_q_public_md, Raw_retired_dr_jane >>
  /\ Len(names) = 2
  /\ names # RawGiven

====
